---- MODULE Spec2Model ----
(***************************************************************************)
(* Model of the binary search tree library (BSTree / AVLTree) of           *)
(* code/libs/tree: node graph, insertion, removal, AVL rebalancing, the    *)
(* cached count and height of class Tree, search, minKey / maxKey, the     *)
(* sorted listings, getItems, serialize / deserialize and the copies.      *)
(*                                                                         *)
(* A NodePtr (std::shared_ptr<Node>) is a sequence of length 0 (nullptr)   *)
(* or 1 (the node it owns, a record).  A NodePtr* ("auto *current") is the *)
(* path of "L"/"R" steps from the root slot to the slot it addresses.      *)
(***************************************************************************)
EXTENDS Integers, Sequences, FiniteSets, TLC

\* ---- bounds of the model --------------------------------------------------
MaxKey == 2
NumValues == 2
MaxCount == 4
MaxBatch == 2
MaxRemovals == 2
MaxAvlKey == 6
MaxAvlCount == 6
MaxCalls == 5

Keys == 1..MaxKey
Values == 1..NumValues

\* The value carried by the nodes of a key-only tree (VT = void).
NoValue == 0

\* Keys handed to the constructor Tree(keys, allowDuplicateKeys) in SpecCtor.
CtorKeys == <<8, 5, 10, 3, 6, 9, 11, 2, 4, 7, 12, 1>>

VARIABLES
    balanced,      \* template parameter: TRUE for AVLTree, FALSE for BSTree
    valued,        \* template parameter: FALSE when VT is void (key-only)
    tree,          \* the Tree object: allowDuplicateKeys, root, count,
                   \* height, invalidateHeight
    heapCorrupt,   \* a node was destroyed through a dangling slot while the
                   \* tree still links to it
    ret            \* the last call made on the tree and what it returned

vars == <<balanced, valued, tree, heapCorrupt, ret>>

\* ---- nodes -----------------------------------------------------------------
nullptr == <<>>

Node(key, value) ==
    [key |-> key, value |-> value, left |-> nullptr, right |-> nullptr,
     balanceFactor |-> 0, duplicates |-> <<>>]

Abs(x) == IF x < 0 THEN -x ELSE x

\* *slot for a NodePtr *slot given as a path from the tree's root slot.
RECURSIVE Deref(_, _)
Deref(r, slot) ==
    IF slot = <<>> THEN r
    ELSE Deref(IF Head(slot) = "L" THEN r[1].left ELSE r[1].right, Tail(slot))

\* *slot = node, for a slot given as a path from the tree's root slot.
RECURSIVE Assign(_, _, _)
Assign(r, slot, node) ==
    IF slot = <<>> THEN node
    ELSE IF Head(slot) = "L"
         THEN <<[r[1] EXCEPT !.left = Assign(@, Tail(slot), node)]>>
         ELSE <<[r[1] EXCEPT !.right = Assign(@, Tail(slot), node)]>>

\* ---- Node<KT, VT, true>: the AVL node's own operations ----------------------
addDuplicateItem(n, key, value) ==
    IF n.key = key
    THEN [node |-> [n EXCEPT !.duplicates = Append(@, <<key, value>>)],
          added |-> TRUE]
    ELSE [node |-> n, added |-> FALSE]

nodeGetCount(n) == 1 + Len(n.duplicates)

nodeGetCountValue(n, value) ==
    (IF n.value = value THEN 1 ELSE 0)
    + Cardinality({i \in 1..Len(n.duplicates) : n.duplicates[i][2] = value})

\* ---- Tree: height and AVL balancing -----------------------------------------
\* The value getHeight(NodePtr) computes.
RECURSIVE nodeHeight(_)
nodeHeight(node) ==
    IF node = nullptr THEN 0
    ELSE LET leftHeight == nodeHeight(node[1].left)
             rightHeight == nodeHeight(node[1].right)
         IN 1 + (IF leftHeight >= rightHeight THEN leftHeight ELSE rightHeight)

NoSlot == [found |-> FALSE, slot |-> <<>>]

\* Refreshes every balanceFactor below node and returns, relative to node, the
\* slot of the imbalanced node the code selects.
RECURSIVE updateBalanceFactors(_)
updateBalanceFactors(node) ==
    IF node = nullptr THEN [node |-> nullptr, imbalanced |-> NoSlot]
    ELSE LET bf == nodeHeight(node[1].right) - nodeHeight(node[1].left)
             l == updateBalanceFactors(node[1].left)
             r == updateBalanceFactors(node[1].right)
             own == IF Abs(bf) > 1 THEN [found |-> TRUE, slot |-> <<>>]
                    ELSE NoSlot
             imb == IF l.imbalanced.found
                    THEN [found |-> TRUE, slot |-> <<"L">> \o l.imbalanced.slot]
                    ELSE IF r.imbalanced.found
                    THEN [found |-> TRUE, slot |-> <<"R">> \o r.imbalanced.slot]
                    ELSE own
         IN [node |-> <<[node[1] EXCEPT !.balanceFactor = bf,
                                        !.left = l.node,
                                        !.right = r.node]>>,
             imbalanced |-> imb]

\* rotateLeft without the transfer of yNode's left subtree to xNode.
rotateLeft_noTransfer(node) ==
    LET xNode == node[1]
        yNode == xNode.right[1]
    IN <<[yNode EXCEPT !.left = <<[xNode EXCEPT !.right = nullptr]>>]>>

rotateLeft(node) ==
    LET xNode == node[1]
        yNode == xNode.right[1]
    IN <<[yNode EXCEPT !.left = <<[xNode EXCEPT !.right = yNode.left]>>]>>

rotateRight(node) ==
    LET xNode == node[1]
        yNode == xNode.left[1]
    IN <<[yNode EXCEPT !.right = <<[xNode EXCEPT !.left = yNode.right]>>]>>

\* balance without the updateBalanceFactors(root) that follows the rotation.
balance_noFinalRefresh(root) ==
    LET u == updateBalanceFactors(root)
        imbalancedNode == Deref(u.node, u.imbalanced.slot)
    IN IF ~u.imbalanced.found THEN u.node
       ELSE IF imbalancedNode[1].balanceFactor > 1
       THEN LET n1 == IF imbalancedNode[1].right[1].balanceFactor < 0
                      THEN <<[imbalancedNode[1] EXCEPT
                                 !.right = rotateRight(@)]>>
                      ELSE imbalancedNode
            IN Assign(u.node, u.imbalanced.slot, rotateLeft(n1))
       ELSE LET n1 == IF imbalancedNode[1].left[1].balanceFactor > 0
                      THEN <<[imbalancedNode[1] EXCEPT
                                 !.left = rotateLeft(@)]>>
                      ELSE imbalancedNode
            IN Assign(u.node, u.imbalanced.slot, rotateRight(n1))

\* balance refreshing the balance factors and rotating nothing.
balance_refreshOnly(root) == updateBalanceFactors(root).node

\* balance applying the single rotation alone, without the rotation of the
\* child that a left-right or right-left imbalance needs first.
balance_singleRotation(root) ==
    LET u == updateBalanceFactors(root)
        imbalancedNode == Deref(u.node, u.imbalanced.slot)
        rotated ==
            IF ~u.imbalanced.found THEN u.node
            ELSE IF imbalancedNode[1].balanceFactor > 1
            THEN Assign(u.node, u.imbalanced.slot, rotateLeft(imbalancedNode))
            ELSE Assign(u.node, u.imbalanced.slot, rotateRight(imbalancedNode))
    IN updateBalanceFactors(rotated).node

balance(root) ==
    LET u == updateBalanceFactors(root)
        imbalancedNode == Deref(u.node, u.imbalanced.slot)
        rotated ==
            IF ~u.imbalanced.found THEN u.node
            ELSE IF imbalancedNode[1].balanceFactor > 1
            THEN LET n1 == IF imbalancedNode[1].right[1].balanceFactor < 0
                           THEN <<[imbalancedNode[1] EXCEPT
                                      !.right = rotateRight(@)]>>
                           ELSE imbalancedNode
                 IN Assign(u.node, u.imbalanced.slot, rotateLeft(n1))
            ELSE LET n1 == IF imbalancedNode[1].left[1].balanceFactor > 0
                           THEN <<[imbalancedNode[1] EXCEPT
                                      !.left = rotateLeft(@)]>>
                           ELSE imbalancedNode
                 IN Assign(u.node, u.imbalanced.slot, rotateRight(n1))
    IN updateBalanceFactors(rotated).node

\* ---- Tree: construction ------------------------------------------------------
EmptyTree(allowDuplicateKeys) ==
    [allowDuplicateKeys |-> allowDuplicateKeys, root |-> nullptr, count |-> 0,
     height |-> 0, invalidateHeight |-> FALSE]

\* Mover::moveTree(Tree &&source, Tree &destination): std::move empties the
\* shared pointer it is applied to and copies a bool or a size_t.
moveTree(source, destination) ==
    [source |-> [source EXCEPT !.root = nullptr],
     destination |-> [destination EXCEPT
                         !.root = source.root,
                         !.allowDuplicateKeys = source.allowDuplicateKeys,
                         !.count = source.count,
                         !.height = source.height,
                         !.invalidateHeight = source.invalidateHeight]]

\* ---- Tree: insert ------------------------------------------------------------
\* insertLoop treating every tree as one that allows duplicate keys.
RECURSIVE insertLoop_ignorePolicy(_, _, _, _, _, _)
insertLoop_ignorePolicy(root, current, key, isDuplicateKey, allowDup, bal) ==
    LET node == Deref(root, current)
    IN IF node = nullptr
       THEN [current |-> current, isDuplicateKey |-> isDuplicateKey,
             addDuplicate |-> FALSE]
       ELSE IF key = node[1].key
            THEN IF bal
                 THEN [current |-> current, isDuplicateKey |-> TRUE,
                       addDuplicate |-> TRUE]
                 ELSE insertLoop_ignorePolicy(root, current \o <<"L">>, key,
                                              TRUE, allowDup, bal)
            ELSE insertLoop_ignorePolicy(root,
                            current \o (IF key < node[1].key THEN <<"L">>
                                        ELSE <<"R">>),
                            key, isDuplicateKey, allowDup, bal)

\* The while loop of insert: the slot it stops at, and how it stopped.
RECURSIVE insertLoop(_, _, _, _, _, _)
insertLoop(root, current, key, isDuplicateKey, allowDup, bal) ==
    LET node == Deref(root, current)
    IN IF node = nullptr
       THEN [current |-> current, isDuplicateKey |-> isDuplicateKey,
             addDuplicate |-> FALSE]
       ELSE IF key = node[1].key
            THEN IF ~allowDup
                 THEN [current |-> current, isDuplicateKey |-> TRUE,
                       addDuplicate |-> FALSE]
                 ELSE IF bal
                      THEN [current |-> current, isDuplicateKey |-> TRUE,
                            addDuplicate |-> TRUE]
                      ELSE insertLoop(root, current \o <<"L">>, key, TRUE,
                                      allowDup, bal)
            ELSE insertLoop(root,
                            current \o (IF key < node[1].key THEN <<"L">>
                                        ELSE <<"R">>),
                            key, isDuplicateKey, allowDup, bal)

insert(t, bal, key, value) ==
    LET f == insertLoop(t.root, <<>>, key, FALSE, t.allowDuplicateKeys, bal)
        dup == IF f.addDuplicate
               THEN addDuplicateItem(Deref(t.root, f.current)[1], key, value)
               ELSE [node |-> <<>>, added |-> FALSE]
        r1 == IF f.addDuplicate
              THEN Assign(t.root, f.current, <<dup.node>>)
              ELSE t.root
        makeNode == ~f.isDuplicateKey \/ ~bal
        r2 == IF makeNode THEN Assign(r1, f.current, <<Node(key, value)>>)
              ELSE r1
        inserted == dup.added \/ makeNode
        invalidate == IF bal THEN ~f.isDuplicateKey ELSE TRUE
        r3 == IF bal /\ invalidate THEN balance(r2) ELSE r2
    IN IF inserted
       THEN [tree |-> [t EXCEPT !.root = r3, !.count = @ + 1,
                                !.invalidateHeight = invalidate],
             result |-> TRUE]
       ELSE [tree |-> t, result |-> FALSE]

\* ---- Tree: removal of one node ----------------------------------------------
removeChildlessNode(node) == nullptr

removeSingleChildNode(node) ==
    IF node[1].left # nullptr THEN node[1].left ELSE node[1].right

\* The walk of removeDoubleChildNode down the left spine below successor s
\* (s and s->left are not null): the node it takes out and what is left of s.
RECURSIVE takeLeftMost(_)
takeLeftMost(s) ==
    IF s[1].left[1].left # nullptr
    THEN LET d == takeLeftMost(s[1].left)
         IN [taken |-> d.taken, rest |-> <<[s[1] EXCEPT !.left = d.rest]>>]
    ELSE [taken |-> s[1].left[1],
          rest |-> <<[s[1] EXCEPT !.left = s[1].left[1].right]>>]

removeDoubleChildNode(node) ==
    LET itemPtr == node[1]
        successor == itemPtr.right
    IN IF successor[1].left # nullptr
       THEN LET d == takeLeftMost(successor)
            IN <<[d.taken EXCEPT !.right = d.rest, !.left = itemPtr.left]>>
       ELSE <<[successor[1] EXCEPT !.left = itemPtr.left]>>

removeNode(node) ==
    IF node[1].left # nullptr /\ node[1].right # nullptr
    THEN removeDoubleChildNode(node)
    ELSE IF node[1].left # nullptr \/ node[1].right # nullptr
         THEN removeSingleChildNode(node)
         ELSE removeChildlessNode(node)

\* removeNode(*current) when current addresses the left member of a node that
\* was already destroyed: the assignment lands in freed storage, the tree's own
\* link keeps pointing at the node, and only the relinking that
\* removeDoubleChildNode does inside live nodes shows in the tree.
removeNodeThroughDanglingSlot(node) ==
    LET itemPtr == node[1]
        successor == itemPtr.right
    IN IF itemPtr.left # nullptr /\ itemPtr.right # nullptr
       THEN IF successor[1].left # nullptr
            THEN <<[itemPtr EXCEPT !.right = takeLeftMost(successor).rest]>>
            ELSE <<[itemPtr EXCEPT
                      !.right = <<[successor[1] EXCEPT !.left = itemPtr.left]>>]>>
       ELSE node

\* What a read of the dangling slot can give: the freed storage still holds
\* the old left pointer ("stale"), or it reads as an empty pointer ("null").
DanglingReads == {"stale", "null"}

\* ---- Tree: remove(key, all) ----------------------------------------------------
\* BSTree branch of the loop.  dangling: current is currentLeft of a node that
\* removeNode has just destroyed.
RECURSIVE removeLoopBST(_, _, _, _, _, _, _, _, _)
removeLoopBST(root, current, dangling, key, all, allowDup, ub, deletedCount, corrupt) ==
    LET node == Deref(root, current)
    IN IF node = nullptr
       THEN [root |-> root, deletedCount |-> deletedCount, corrupt |-> corrupt]
       ELSE IF node[1].key = key
            THEN LET newRoot ==
                         IF dangling
                         THEN Assign(root, current,
                                     removeNodeThroughDanglingSlot(node))
                         ELSE Assign(root, current, removeNode(node))
                     \* where the node that currentLeft pointed to now hangs
                     currentLeft ==
                         IF dangling \/ node[1].right # nullptr
                         THEN current \o <<"L">>
                         ELSE current
                     done == [root |-> newRoot,
                              deletedCount |-> deletedCount + 1,
                              corrupt |-> corrupt \/ dangling]
                 IN IF ~all \/ ~allowDup THEN done
                    ELSE IF node[1].left = nullptr \/ ub = "null" THEN done
                    ELSE removeLoopBST(newRoot, currentLeft, TRUE, key, all,
                                       allowDup, ub, deletedCount + 1,
                                       corrupt \/ dangling)
            ELSE removeLoopBST(root,
                               current \o (IF key < node[1].key THEN <<"L">>
                                           ELSE <<"R">>),
                               FALSE, key, all, allowDup, ub, deletedCount,
                               corrupt)

\* findSlot stopping one step early: at the last node on the way when the key
\* is absent, instead of the empty slot below it.
RECURSIVE findSlot_lastNode(_, _, _)
findSlot_lastNode(root, current, key) ==
    LET node == Deref(root, current)
        next == current \o (IF key < node[1].key THEN <<"L">> ELSE <<"R">>)
    IN IF node = nullptr \/ node[1].key = key THEN current
       ELSE IF Deref(root, next) = nullptr THEN current
            ELSE findSlot_lastNode(root, next, key)

\* The slot the descent by key stops at: the first node with that key, or the
\* empty slot where the key would go.
RECURSIVE findSlot(_, _, _)
findSlot(root, current, key) ==
    LET node == Deref(root, current)
    IN IF node = nullptr \/ node[1].key = key THEN current
       ELSE findSlot(root,
                     current \o (IF key < node[1].key THEN <<"L">>
                                 ELSE <<"R">>),
                     key)

\* popFrontDuplicate taking the back of duplicates instead of its front.
popFrontDuplicate_back(n) ==
    [n EXCEPT !.key = n.duplicates[Len(n.duplicates)][1],
              !.value = n.duplicates[Len(n.duplicates)][2],
              !.duplicates = SubSeq(n.duplicates, 1, Len(n.duplicates) - 1)]

\* The front of duplicates becomes the node's own item.
popFrontDuplicate(n) ==
    [n EXCEPT !.key = Head(n.duplicates)[1],
              !.value = Head(n.duplicates)[2],
              !.duplicates = Tail(n.duplicates)]

\* AVLTree branch of the loop.
removeAVL(t, key, all) ==
    LET current == findSlot(t.root, <<>>, key)
        node == Deref(t.root, current)
    IN IF node = nullptr
       THEN [tree |-> t, result |-> 0]
       ELSE IF all \/ node[1].duplicates = <<>>
            THEN LET deletedCount == nodeGetCount(node[1])
                 IN [tree |-> [t EXCEPT
                         !.root = balance(Assign(t.root, current,
                                                 removeNode(node))),
                         !.count = @ - deletedCount,
                         !.invalidateHeight = TRUE],
                     result |-> deletedCount]
            ELSE [tree |-> [t EXCEPT
                      !.root = Assign(t.root, current,
                                      <<popFrontDuplicate(node[1])>>),
                      !.count = @ - 1],
                  result |-> 1]

remove(t, bal, key, all, ub) ==
    IF bal
    THEN LET r == removeAVL(t, key, all)
         IN [tree |-> r.tree, result |-> r.result, corrupt |-> FALSE]
    ELSE LET r == removeLoopBST(t.root, <<>>, FALSE, key, all,
                                t.allowDuplicateKeys, ub, 0, FALSE)
         IN [tree |-> [t EXCEPT
                  !.root = r.root,
                  !.count = @ - r.deletedCount,
                  !.invalidateHeight = (r.deletedCount > 0) \/ @],
             result |-> r.deletedCount,
             corrupt |-> r.corrupt]

\* ---- Tree: remove(key, value, all) ---------------------------------------------
\* The for loop over duplicates: erases the first item with that value, or
\* every one when all is set.
RECURSIVE eraseDuplicates(_, _, _)
eraseDuplicates(dups, value, all) ==
    IF dups = <<>> THEN <<>>
    ELSE IF Head(dups)[2] = value
         THEN IF all THEN eraseDuplicates(Tail(dups), value, all)
              ELSE Tail(dups)
         ELSE <<Head(dups)>> \o eraseDuplicates(Tail(dups), value, all)

\* AVLTree branch of the loop, entered with current at the node with the key;
\* "continue" re-enters it at the same slot.
RECURSIVE removeValueLoopAVL(_, _, _, _, _)
removeValueLoopAVL(t, current, value, all, deletedCount) ==
    LET node == Deref(t.root, current)
        n == node[1]
    IN IF node = nullptr
       THEN [tree |-> t, result |-> deletedCount]
       ELSE IF n.duplicates = <<>>
       THEN IF n.value = value
            THEN [tree |-> [t EXCEPT
                      !.root = balance(Assign(t.root, current,
                                              removeNode(node))),
                      !.count = @ - nodeGetCount(n),
                      !.invalidateHeight = TRUE],
                  \* deletedCount = (*current)->getCount();
                  result |-> nodeGetCount(n)]
            ELSE [tree |-> t, result |-> deletedCount]
       ELSE IF n.value = value
       THEN LET t1 == [t EXCEPT
                         !.root = Assign(t.root, current,
                                         <<popFrontDuplicate(n)>>),
                         !.count = @ - 1]
            IN IF ~all THEN [tree |-> t1, result |-> deletedCount + 1]
               ELSE removeValueLoopAVL(t1, current, value, all,
                                       deletedCount + 1)
       ELSE LET kept == eraseDuplicates(n.duplicates, value, all)
                erased == Len(n.duplicates) - Len(kept)
            IN [tree |-> [t EXCEPT
                     !.root = Assign(t.root, current,
                                     <<[n EXCEPT !.duplicates = kept]>>),
                     !.count = @ - erased],
                result |-> deletedCount + erased]

\* BSTree branch of the loop.
RECURSIVE removeValueLoopBST(_, _, _, _, _, _, _, _, _, _)
removeValueLoopBST(root, current, dangling, key, value, all, allowDup, ub, deletedCount, corrupt) ==
    LET node == Deref(root, current)
        stop == [root |-> root, deletedCount |-> deletedCount,
                 corrupt |-> corrupt]
    IN IF node = nullptr THEN stop
       ELSE IF node[1].key = key
            THEN IF node[1].value # value /\ ~allowDup THEN stop
                 ELSE IF node[1].value # value
                 THEN removeValueLoopBST(root, current \o <<"L">>, FALSE, key,
                                         value, all, allowDup, ub,
                                         deletedCount, corrupt)
                 ELSE LET newRoot ==
                              IF dangling
                              THEN Assign(root, current,
                                          removeNodeThroughDanglingSlot(node))
                              ELSE Assign(root, current, removeNode(node))
                          currentLeft ==
                              IF dangling \/ node[1].right # nullptr
                              THEN current \o <<"L">>
                              ELSE current
                          done == [root |-> newRoot,
                                   deletedCount |-> deletedCount + 1,
                                   corrupt |-> corrupt \/ dangling]
                      IN IF ~all \/ ~allowDup THEN done
                         ELSE IF node[1].left = nullptr \/ ub = "null"
                         THEN done
                         ELSE removeValueLoopBST(newRoot, currentLeft, TRUE,
                                                 key, value, all, allowDup,
                                                 ub, deletedCount + 1,
                                                 corrupt \/ dangling)
            ELSE removeValueLoopBST(root,
                                    current \o (IF key < node[1].key
                                                THEN <<"L">> ELSE <<"R">>),
                                    FALSE, key, value, all, allowDup, ub,
                                    deletedCount, corrupt)

removeValue(t, bal, key, value, all, ub) ==
    IF bal
    THEN LET r == removeValueLoopAVL(t, findSlot(t.root, <<>>, key), value,
                                     all, 0)
         IN [tree |-> r.tree, result |-> r.result, corrupt |-> FALSE]
    ELSE LET r == removeValueLoopBST(t.root, <<>>, FALSE, key, value, all,
                                     t.allowDuplicateKeys, ub, 0, FALSE)
         IN [tree |-> [t EXCEPT
                  !.root = r.root,
                  !.count = @ - r.deletedCount,
                  !.invalidateHeight = (r.deletedCount > 0) \/ @],
             result |-> r.deletedCount,
             corrupt |-> r.corrupt]

\* ---- Tree: batch calls ----------------------------------------------------------
\* insert(const InsertInputVector &items); items are <<key, value>> pairs.
RECURSIVE insertItems(_, _, _)
insertItems(t, bal, items) ==
    IF items = <<>> THEN [tree |-> t, result |-> 0]
    ELSE LET one == insert(t, bal, Head(items)[1], Head(items)[2])
             rest == insertItems(one.tree, bal, Tail(items))
         IN [tree |-> rest.tree,
             result |-> rest.result + (IF one.result THEN 1 ELSE 0)]

\* remove(const KeyVector &keys, bool all).  Nothing is modelled of a call
\* made after the heap was corrupted: the batch is cut there.  The result of
\* each single call is bound once (one) before the rest of the loop runs.
RECURSIVE removeKeys(_, _, _, _, _)
removeKeys(t, bal, keys, all, ub) ==
    IF keys = <<>> THEN [tree |-> t, result |-> 0, corrupt |-> FALSE]
    ELSE CHOOSE res \in
           { IF one.corrupt THEN one
             ELSE LET rest == removeKeys(one.tree, bal, Tail(keys), all, ub)
                  IN [tree |-> rest.tree,
                      result |-> one.result + rest.result,
                      corrupt |-> rest.corrupt]
             : one \in {remove(t, bal, Head(keys), all, ub)} } : TRUE

\* remove(const std::vector<std::pair<KT, VT>> &pairs, bool all): each pair
\* goes through remove(pair.first, pair.second), whose all defaults to false.
RECURSIVE removePairs(_, _, _, _)
removePairs(t, bal, pairs, all) ==
    IF pairs = <<>> THEN [tree |-> t, result |-> 0]
    ELSE CHOOSE res \in
           { LET rest == removePairs(one.tree, bal, Tail(pairs), all)
             IN [tree |-> rest.tree, result |-> one.result + rest.result]
             : one \in {removeValue(t, bal, Head(pairs)[1], Head(pairs)[2],
                                    FALSE, "null")} } : TRUE

\* ---- Tree: queries ---------------------------------------------------------------
clear(t) ==
    [t EXCEPT !.root = nullptr, !.count = 0, !.height = 0,
              !.invalidateHeight = FALSE]

isEmpty(t) == t.root = nullptr

\* getHeight(): the tree with its cache refreshed, and the value returned.
getHeight(t) ==
    LET t1 == IF t.invalidateHeight
              THEN [t EXCEPT !.height = nodeHeight(t.root),
                             !.invalidateHeight = FALSE]
              ELSE t
    IN [tree |-> t1, result |-> t1.height]

getCount(t) == t.count

RECURSIVE getCountKeyLoop(_, _, _, _)
getCountKeyLoop(current, key, bal, allowDup) ==
    IF current = nullptr THEN 0
    ELSE IF current[1].key = key
         THEN IF bal THEN nodeGetCount(current[1])
              ELSE 1 + (IF allowDup
                        THEN getCountKeyLoop(current[1].left, key, bal,
                                             allowDup)
                        ELSE 0)
         ELSE getCountKeyLoop(IF key < current[1].key THEN current[1].left
                              ELSE current[1].right,
                              key, bal, allowDup)

getCountKey(t, bal, key) ==
    getCountKeyLoop(t.root, key, bal, t.allowDuplicateKeys)

RECURSIVE getCountKeyValueLoop(_, _, _, _, _)
getCountKeyValueLoop(current, key, value, bal, allowDup) ==
    IF current = nullptr THEN 0
    ELSE IF current[1].key = key
         THEN IF bal THEN nodeGetCountValue(current[1], value)
              ELSE (IF current[1].value = value THEN 1 ELSE 0)
                   + (IF allowDup
                      THEN getCountKeyValueLoop(current[1].left, key, value,
                                                bal, allowDup)
                      ELSE 0)
         ELSE getCountKeyValueLoop(IF key < current[1].key
                                   THEN current[1].left
                                   ELSE current[1].right,
                                   key, value, bal, allowDup)

getCountKeyValue(t, bal, key, value) ==
    getCountKeyValueLoop(t.root, key, value, bal, t.allowDuplicateKeys)

\* ---- Tree: search -----------------------------------------------------------------
\* A default-constructed SearchResult / LimitResult.
NotFound == [found |-> FALSE, key |-> 0, value |-> NoValue]

Found(key, value) == [found |-> TRUE, key |-> key, value |-> value]

\* getLastEncounteredItem reading duplicates.front() where the code reads
\* duplicates.back().
getLastEncounteredItem_front(n) ==
    IF n.duplicates # <<>> THEN Head(n.duplicates) ELSE <<n.key, n.value>>

getLastEncounteredItem(n) ==
    IF n.duplicates # <<>> THEN n.duplicates[Len(n.duplicates)]
    ELSE <<n.key, n.value>>

\* Node<KT, VT, true>::searchItem.  The condition of its second if reads
\* (!duplicates.empty() && !found) || lastEncounter.
searchItem(n, value, lastEncounter) ==
    LET own == IF n.value = value THEN Found(n.key, n.value) ELSE NotFound
        hits == {i \in 1..Len(n.duplicates) : n.duplicates[i][2] = value}
        pick(i) == Found(n.duplicates[i][1], n.duplicates[i][2])
    IN IF (n.duplicates # <<>> /\ ~own.found) \/ lastEncounter
       THEN IF hits = {} THEN own
            ELSE IF lastEncounter
                 THEN pick(CHOOSE i \in hits : \A j \in hits : j <= i)
                 ELSE pick(CHOOSE i \in hits : \A j \in hits : i <= j)
       ELSE own

\* search(KT key, bool lastEncounter): the while loop from current on.
RECURSIVE searchLoop(_, _, _, _, _, _)
searchLoop(current, key, lastEncounter, allowDup, bal, searchResult) ==
    IF current = nullptr THEN searchResult
    ELSE IF current[1].key = key
         THEN IF ~allowDup \/ ~lastEncounter
              THEN Found(current[1].key, current[1].value)
              ELSE IF bal
                   THEN LET lastItem == getLastEncounteredItem(current[1])
                        IN Found(lastItem[1], lastItem[2])
                   ELSE searchLoop(current[1].left, key, lastEncounter,
                                   allowDup, bal,
                                   Found(current[1].key, current[1].value))
         ELSE searchLoop(IF key < current[1].key THEN current[1].left
                         ELSE current[1].right,
                         key, lastEncounter, allowDup, bal, searchResult)

search(t, bal, key, lastEncounter) ==
    searchLoop(t.root, key, lastEncounter, t.allowDuplicateKeys, bal, NotFound)

\* search(KT key, T value, bool lastEncounter): the while loop from current on.
RECURSIVE searchValueLoop(_, _, _, _, _, _, _)
searchValueLoop(current, key, value, lastEncounter, allowDup, bal, searchResult) ==
    IF current = nullptr THEN searchResult
    ELSE IF current[1].key = key
         THEN IF bal THEN searchItem(current[1], value, lastEncounter)
              ELSE IF ~allowDup \/ ~lastEncounter
                   THEN IF current[1].value = value
                        THEN Found(current[1].key, current[1].value)
                        ELSE IF allowDup
                             THEN searchValueLoop(current[1].left, key, value,
                                                  lastEncounter, allowDup, bal,
                                                  searchResult)
                             ELSE searchResult
                   ELSE searchValueLoop(current[1].left, key, value,
                                        lastEncounter, allowDup, bal,
                                        IF current[1].value = value
                                        THEN Found(current[1].key,
                                                   current[1].value)
                                        ELSE searchResult)
         ELSE searchValueLoop(IF key < current[1].key THEN current[1].left
                              ELSE current[1].right,
                              key, value, lastEncounter, allowDup, bal,
                              searchResult)

searchValue(t, bal, key, value, lastEncounter) ==
    searchValueLoop(t.root, key, value, lastEncounter, t.allowDuplicateKeys,
                    bal, NotFound)

\* ---- Tree: minKey / maxKey ------------------------------------------------------------
\* while(current && current->left) current = current->left;
RECURSIVE leftMost(_)
leftMost(current) ==
    IF current # nullptr /\ current[1].left # nullptr
    THEN leftMost(current[1].left)
    ELSE current

\* while(current && current->right) current = current->right;
RECURSIVE rightMost(_)
rightMost(current) ==
    IF current # nullptr /\ current[1].right # nullptr
    THEN rightMost(current[1].right)
    ELSE current

\* minKey descending to the right, as maxKey does.
minKey_rightMost(t, bal) ==
    LET current == rightMost(t.root)
    IN IF current = nullptr THEN NotFound
       ELSE IF bal
            THEN LET lastItem == getLastEncounteredItem(current[1])
                 IN Found(lastItem[1], lastItem[2])
            ELSE Found(current[1].key, current[1].value)

minKey(t, bal) ==
    LET current == leftMost(t.root)
    IN IF current = nullptr THEN NotFound
       ELSE IF bal
            THEN LET lastItem == getLastEncounteredItem(current[1])
                 IN Found(lastItem[1], lastItem[2])
            ELSE Found(current[1].key, current[1].value)

maxKey(t, bal) ==
    LET current == rightMost(t.root)
    IN IF current = nullptr THEN NotFound
       ELSE Found(current[1].key, current[1].value)

\* ---- Tree: sorted listings ------------------------------------------------------------
\* getSortedKeys pushing the node's key before the keys of both subtrees.
RECURSIVE getSortedKeys_nodeFirst(_, _)
getSortedKeys_nodeFirst(node, reverse) ==
    IF node = nullptr THEN <<>>
    ELSE LET leftKeys == getSortedKeys_nodeFirst(node[1].left, reverse)
             rightKeys == getSortedKeys_nodeFirst(node[1].right, reverse)
         IN IF reverse THEN <<node[1].key>> \o rightKeys \o leftKeys
            ELSE <<node[1].key>> \o leftKeys \o rightKeys

\* getSortedKeys(NodePtr node, bool reverse)
RECURSIVE getSortedKeys(_, _)
getSortedKeys(node, reverse) ==
    IF node = nullptr THEN <<>>
    ELSE LET leftKeys == getSortedKeys(node[1].left, reverse)
             rightKeys == getSortedKeys(node[1].right, reverse)
         IN IF reverse THEN rightKeys \o <<node[1].key>> \o leftKeys
            ELSE leftKeys \o <<node[1].key>> \o rightKeys

\* getSortedKeyValuePairs(NodePtr node, bool reverse).  Its two recursive
\* calls are spelled getSortedItems, a name declared nowhere, so no call of
\* the method builds; they are read here as calls of the method itself.
\* Both of them are made on node->left.
RECURSIVE getSortedKeyValuePairsBelow(_, _)
getSortedKeyValuePairsBelow(node, reverse) ==
    IF node = nullptr THEN <<>>
    ELSE LET leftVector == getSortedKeyValuePairsBelow(node[1].left, reverse)
             rightVector == getSortedKeyValuePairsBelow(node[1].left, reverse)
             pair == <<node[1].key, node[1].value>>
         IN IF reverse THEN rightVector \o <<pair>> \o leftVector
            ELSE leftVector \o <<pair>> \o rightVector

\* getSortedKeyValuePairs(bool reverse): calls getSortedKeyValuePairs(root),
\* whose reverse defaults to false.
getSortedKeyValuePairs(t, reverse) ==
    getSortedKeyValuePairsBelow(t.root, FALSE)

\* Tree(const KeyVector &keys, bool allowDuplicateKeys)
TreeFromKeys(keys, allowDuplicateKeys, bal) ==
    insertItems(EmptyTree(allowDuplicateKeys), bal,
                [i \in 1..Len(keys) |-> <<keys[i], NoValue>>]).tree

\* Tree(const std::vector<std::pair<KT, VT>> &pairs, bool allowDuplicateKeys),
\* and Tree(keys, ...) with the keys given as <<key, NoValue>> items.
TreeFromItems(items, allowDuplicateKeys, bal) ==
    insertItems(EmptyTree(allowDuplicateKeys), bal, items).tree

\* ---- Tree: getItems ---------------------------------------------------------------
\* The inner loop of getNodesAtLevel: the children of the previous level's
\* nodes, two places for each of them whether it is null or not.
RECURSIVE levelBelow(_)
levelBelow(prevNodes) ==
    IF prevNodes = <<>> THEN <<>>
    ELSE (IF Head(prevNodes) # nullptr
          THEN <<Head(prevNodes)[1].left, Head(prevNodes)[1].right>>
          ELSE <<nullptr, nullptr>>)
         \o levelBelow(Tail(prevNodes))

\* getNodesAtLevel(level, prevNodes) as getItems calls it: level 0 ignores
\* prevNodes, every further level is handed the nodes of the level above.
getNodesAtLevel(root, level, prevNodes) ==
    IF level = 0 THEN <<root>>
    ELSE levelBelow(IF prevNodes = <<>> THEN <<root>> ELSE prevNodes)

\* The items getItems pushes for the nodes of one level.
RECURSIVE itemsOfNodes(_, _)
itemsOfNodes(nodes, bal) ==
    IF nodes = <<>> THEN <<>>
    ELSE (IF Head(nodes) = nullptr THEN <<>>
          ELSE <<<<Head(nodes)[1].key, Head(nodes)[1].value>>>>
               \o (IF bal THEN Head(nodes)[1].duplicates ELSE <<>>))
         \o itemsOfNodes(Tail(nodes), bal)

\* The for loop of getItems over the levels below height.
RECURSIVE itemsFromLevel(_, _, _, _, _)
itemsFromLevel(root, level, height, nodes, bal) ==
    IF level >= height THEN <<>>
    ELSE LET levelNodes == getNodesAtLevel(root, level, nodes)
         IN itemsOfNodes(levelNodes, bal)
            \o itemsFromLevel(root, level + 1, height, levelNodes, bal)

\* getItems(): the items, and the tree with the height cache as getHeight()
\* leaves it (height and invalidateHeight are mutable).
getItems(t, bal) ==
    IF t.root = nullptr THEN [tree |-> t, items |-> <<>>]
    ELSE LET h == getHeight(t)
         IN [tree |-> h.tree,
             items |-> itemsFromLevel(t.root, 0, h.result, <<>>, bal)]

\* ---- Tree: serialize / deserialize ---------------------------------------------------
\* A file is a sequence of cells.  serializeVariable writes a variable of a
\* fundamental type as its size, then its binary representation: here one
\* cell holding dataSize (counted in cells) and one cell holding the value.
\* Streams that fail to open or to write are not part of the model.
DataSize == 1

serializeVariable(var) == <<DataSize, var>>

\* The binary representation of a bool, and reading it back.
BoolToCell(b) == IF b THEN 1 ELSE 0

CellToBool(c) == c # 0

RECURSIVE serializeItems(_, _)
serializeItems(items, hasValue) ==
    IF items = <<>> THEN <<>>
    ELSE serializeVariable(Head(items)[1])
         \o (IF hasValue THEN serializeVariable(Head(items)[2]) ELSE <<>>)
         \o serializeItems(Tail(items), hasValue)

\* serialize(filepath): the file written, and the tree as getItems leaves it.
serialize(t, bal, hasValue) ==
    LET g == getItems(t, bal)
    IN [tree |-> g.tree,
        file |-> serializeVariable(BoolToCell(t.allowDuplicateKeys))
                 \o serializeItems(g.items, hasValue),
        result |-> TRUE]

\* deserializeVariable on what is left of the stream: inputFile.good() after
\* the two reads, the variable read, and what is left then.  A read that
\* meets the end of the stream fails and leaves the stream failed.
deserializeVariable(stream) ==
    IF stream = <<>> \/ Len(stream) < 1 + Head(stream)
    THEN [good |-> FALSE, var |-> 0, stream |-> <<>>]
    ELSE [good |-> TRUE, var |-> stream[2],
          stream |-> SubSeq(stream, 2 + Head(stream), Len(stream))]

\* The while loop of deserialize.
RECURSIVE deserializeItems(_, _, _)
deserializeItems(stream, items, hasValue) ==
    LET k == deserializeVariable(stream)
        v == deserializeVariable(k.stream)
    IN IF ~k.good THEN [failedRead |-> FALSE, items |-> items]
       ELSE IF ~hasValue
            THEN deserializeItems(k.stream, Append(items, <<k.var, NoValue>>),
                                  hasValue)
            ELSE IF ~v.good THEN [failedRead |-> TRUE, items |-> items]
                 ELSE deserializeItems(v.stream,
                                       Append(items, <<k.var, v.var>>),
                                       hasValue)

\* deserialize building the tree without handing it the flag it read.
deserialize_defaultPolicy(file, bal, hasValue) ==
    LET flag == deserializeVariable(file)
        read == IF flag.good THEN deserializeItems(flag.stream, <<>>, hasValue)
                ELSE [failedRead |-> TRUE, items |-> <<>>]
    IN IF read.failedRead
       THEN [tree |-> EmptyTree(TRUE), corrupted |-> TRUE]
       ELSE [tree |-> TreeFromItems(read.items, TRUE, bal),
             corrupted |-> FALSE]

\* deserialize(filepath) on a file that opens: the tree returned, and whether
\* the file was reported as corrupted.
deserialize(file, bal, hasValue) ==
    LET flag == deserializeVariable(file)
        read == IF flag.good THEN deserializeItems(flag.stream, <<>>, hasValue)
                ELSE [failedRead |-> TRUE, items |-> <<>>]
    IN IF read.failedRead
       THEN [tree |-> EmptyTree(TRUE), corrupted |-> TRUE]
       ELSE [tree |-> TreeFromItems(read.items, CellToBool(flag.var), bal),
             corrupted |-> FALSE]

\* ---- Tree: copies ---------------------------------------------------------------------
\* Tree(const Tree &other): Tree(other.getItems(), other.isDuplicationAllowed()).
copyConstruct(other, bal) ==
    TreeFromItems(getItems(other, bal).items, other.allowDuplicateKeys, bal)

\* operator=(const Tree &other) for this != &other: clear(), then
\* insert(other.getItems()).
copyAssign(t, other, bal) ==
    insertItems(clear(t), bal, getItems(other, bal).items).tree

\* ---- state machine -------------------------------------------------------------
ValuesOf(v) == IF v THEN Values ELSE {NoValue}

SeqsUpTo(S, n) == UNION {[1..m -> S] : m \in 0..n}

Call(op, key, value, all, items, result) ==
    [op |-> op, key |-> key, value |-> value, all |-> all, items |-> items,
     result |-> result]

Init ==
    /\ balanced \in BOOLEAN
    /\ valued \in BOOLEAN
    /\ \E d \in BOOLEAN : tree = EmptyTree(d)
    /\ heapCorrupt = FALSE
    /\ ret = Call("none", 0, NoValue, FALSE, <<>>, 0)

Insert(key, value) ==
    /\ ~heapCorrupt
    /\ tree.count < MaxCount
    /\ LET res == insert(tree, balanced, key, value)
       IN /\ tree' = res.tree
          /\ ret' = Call("insert", key, value, FALSE, <<>>,
                         IF res.result THEN 1 ELSE 0)
    /\ UNCHANGED <<balanced, valued, heapCorrupt>>

Remove(key, all, ub) ==
    /\ ~heapCorrupt
    /\ LET res == remove(tree, balanced, key, all, ub)
       IN /\ tree' = res.tree
          /\ heapCorrupt' = res.corrupt
          /\ ret' = Call("remove", key, NoValue, all, <<>>, res.result)
    /\ UNCHANGED <<balanced, valued>>

RemoveValue(key, value, all, ub) ==
    /\ ~heapCorrupt
    /\ valued
    /\ LET res == removeValue(tree, balanced, key, value, all, ub)
       IN /\ tree' = res.tree
          /\ heapCorrupt' = res.corrupt
          /\ ret' = Call("removeValue", key, value, all, <<>>, res.result)
    /\ UNCHANGED <<balanced, valued>>

RemoveKeys(keys, all, ub) ==
    /\ ~heapCorrupt
    /\ LET res == removeKeys(tree, balanced, keys, all, ub)
       IN /\ tree' = res.tree
          /\ heapCorrupt' = res.corrupt
          /\ ret' = Call("removeKeys", 0, NoValue, all, keys, res.result)
    /\ UNCHANGED <<balanced, valued>>

RemovePairs(pairs, all) ==
    /\ ~heapCorrupt
    /\ valued
    /\ LET res == removePairs(tree, balanced, pairs, all)
       IN /\ tree' = res.tree
          /\ ret' = Call("removePairs", 0, NoValue, all, pairs, res.result)
    /\ UNCHANGED <<balanced, valued, heapCorrupt>>

Clear ==
    /\ ~heapCorrupt
    /\ tree' = clear(tree)
    /\ ret' = Call("clear", 0, NoValue, FALSE, <<>>, 0)
    /\ UNCHANGED <<balanced, valued, heapCorrupt>>

GetHeight ==
    /\ ~heapCorrupt
    /\ LET res == getHeight(tree)
       IN /\ tree' = res.tree
          /\ ret' = Call("getHeight", 0, NoValue, FALSE, <<>>, res.result)
    /\ UNCHANGED <<balanced, valued, heapCorrupt>>

\* t.serialize(path) and then t = Tree::deserialize(path), with the file
\* holding only its first cut cells when it is read back.
Reload(cut) ==
    /\ ~heapCorrupt
    /\ LET written == serialize(tree, balanced, valued)
           stream == SubSeq(written.file, 1, cut)
           res == deserialize(stream, balanced, valued)
       IN /\ cut \in 0..Len(written.file)
          /\ tree' = res.tree
          /\ ret' = Call("deserialize", cut, NoValue, FALSE, stream,
                         IF res.corrupted THEN 1 ELSE 0)
    /\ UNCHANGED <<balanced, valued, heapCorrupt>>

\* Tree copy(t), and the program goes on with the copy.
Copy ==
    /\ ~heapCorrupt
    /\ tree' = copyConstruct(tree, balanced)
    /\ ret' = Call("copy", 0, NoValue, FALSE, <<>>, 0)
    /\ UNCHANGED <<balanced, valued, heapCorrupt>>

\* t = b, for a tree b just built by Tree(items, allowDuplicateKeys).  ret
\* records b: its items in items, its policy in all, its getCount() in result.
CopyAssign(items, allowDuplicateKeys) ==
    /\ ~heapCorrupt
    /\ LET b == TreeFromItems(items, allowDuplicateKeys, balanced)
       IN /\ tree' = copyAssign(tree, b, balanced)
          /\ ret' = Call("copyAssign", 0, NoValue, allowDuplicateKeys, items,
                         getCount(b))
    /\ UNCHANGED <<balanced, valued, heapCorrupt>>

\* The outcomes of a dangling read matter only where the code makes one: in
\* a BSTree that allows duplicates, asked to remove all occurrences.
ReadsFor(all) ==
    IF ~balanced /\ tree.allowDuplicateKeys /\ all THEN DanglingReads
    ELSE {"stale"}

Next ==
    \/ \E key \in Keys : \E value \in ValuesOf(valued) : Insert(key, value)
    \/ \E key \in Keys : \E all \in BOOLEAN : \E ub \in ReadsFor(all) :
          Remove(key, all, ub)
    \/ \E key \in Keys : \E value \in Values : \E all \in BOOLEAN :
          \E ub \in ReadsFor(all) : RemoveValue(key, value, all, ub)
    \/ Clear
    \/ GetHeight

Spec == Init /\ [][Next]_vars

\* The batch removals, on trees built by single inserts.
NextBatch ==
    \/ \E key \in Keys : \E value \in ValuesOf(valued) : Insert(key, value)
    \/ \E keys \in SeqsUpTo(Keys, MaxBatch) : \E all \in BOOLEAN :
          \E ub \in ReadsFor(all) : RemoveKeys(keys, all, ub)
    \/ \E pairs \in SeqsUpTo(Keys \X Values, MaxBatch) : \E all \in BOOLEAN :
          RemovePairs(pairs, all)

SpecBatch == Init /\ [][NextBatch]_vars

\* A tree built by the constructor from a key vector, then removals.
CtorKeySet == {CtorKeys[i] : i \in 1..Len(CtorKeys)}

InitCtor ==
    /\ balanced \in BOOLEAN
    /\ valued = FALSE
    /\ \E d \in BOOLEAN : tree = TreeFromKeys(CtorKeys, d, balanced)
    /\ heapCorrupt = FALSE
    /\ ret = Call("none", 0, NoValue, FALSE, <<>>, 0)

RemoveCtor(key, all, ub) ==
    /\ tree.count > Len(CtorKeys) - MaxRemovals
    /\ Remove(key, all, ub)

NextCtor ==
    \/ \E key \in CtorKeySet : \E all \in BOOLEAN : \E ub \in ReadsFor(all) :
          RemoveCtor(key, all, ub)
    \/ GetHeight

SpecCtor == InitCtor /\ [][NextCtor]_vars

\* Trees built by single inserts alone.
NextInserts ==
    \E key \in Keys : \E value \in ValuesOf(valued) : Insert(key, value)

SpecInserts == Init /\ [][NextInserts]_vars

\* Trees written to a file and read back, between inserts and removes.
MaxFile == 2 * (1 + DataSize) * MaxCount + 1 + DataSize

NextFile ==
    \/ \E key \in Keys : \E value \in ValuesOf(valued) : Insert(key, value)
    \/ \E key \in Keys : \E all \in BOOLEAN : \E ub \in ReadsFor(all) :
          Remove(key, all, ub)
    \/ GetHeight
    \/ \E cut \in 0..MaxFile : Reload(cut)

SpecFile == Init /\ [][NextFile]_vars

\* Trees copied and assigned, between inserts and removes.
NextCopy ==
    \/ \E key \in Keys : \E value \in ValuesOf(valued) : Insert(key, value)
    \/ \E key \in Keys : \E all \in BOOLEAN : \E ub \in ReadsFor(all) :
          Remove(key, all, ub)
    \/ GetHeight
    \/ Copy
    \/ \E items \in SeqsUpTo(Keys \X ValuesOf(valued), MaxBatch) :
          \E allowDuplicateKeys \in BOOLEAN :
             CopyAssign(items, allowDuplicateKeys)

SpecCopy == Init /\ [][NextCopy]_vars

\* ---- the node graph, read directly ------------------------------------------------
\* Every primary node below node, as a set of <<slot, node>>.
RECURSIVE NodesAt(_, _)
NodesAt(node, slot) ==
    IF node = nullptr THEN {}
    ELSE {<<slot, node[1]>>}
         \cup NodesAt(node[1].left, slot \o <<"L">>)
         \cup NodesAt(node[1].right, slot \o <<"R">>)

Nodes(node) == {p[2] : p \in NodesAt(node, <<>>)}

RECURSIVE KeysBelow(_)
KeysBelow(node) ==
    IF node = nullptr THEN {}
    ELSE {node[1].key} \cup KeysBelow(node[1].left)
         \cup KeysBelow(node[1].right)

\* Number of live items: primary nodes plus the entries of duplicates lists.
RECURSIVE LiveItems(_)
LiveItems(node) ==
    IF node = nullptr THEN 0
    ELSE nodeGetCount(node[1]) + LiveItems(node[1].left)
         + LiveItems(node[1].right)

\* Number of live items with the given key.
RECURSIVE LiveItemsWithKey(_, _)
LiveItemsWithKey(node, key) ==
    IF node = nullptr THEN 0
    ELSE (IF node[1].key = key THEN nodeGetCount(node[1]) ELSE 0)
         + LiveItemsWithKey(node[1].left, key)
         + LiveItemsWithKey(node[1].right, key)

\* Number of live items with the given key and value.
RECURSIVE LiveItemsWithKeyValue(_, _, _)
LiveItemsWithKeyValue(node, key, value) ==
    IF node = nullptr THEN 0
    ELSE (IF node[1].key = key THEN nodeGetCountValue(node[1], value) ELSE 0)
         + LiveItemsWithKeyValue(node[1].left, key, value)
         + LiveItemsWithKeyValue(node[1].right, key, value)

Ordered(root, allowDup) ==
    \A n \in Nodes(root) :
        /\ \A k \in KeysBelow(n.left) :
              IF allowDup THEN k <= n.key ELSE k < n.key
        /\ \A k \in KeysBelow(n.right) : k > n.key

AVLBalanced(root) ==
    \A n \in Nodes(root) :
        Abs(nodeHeight(n.right) - nodeHeight(n.left)) <= 1

\* ---- one sequence of calls on a BSTree and on an AVLTree ---------------------------
\* A call: insert(key, value) or remove(key) with all = false.
InsertCall(key, value) == [op |-> "insert", key |-> key, value |-> value]

RemoveCall(key) == [op |-> "remove", key |-> key, value |-> NoValue]

\* The calls made one after the other on tree t: the tree they leave and the
\* values they return (an insert's bool as 1 or 0).
RECURSIVE applyCalls(_, _, _)
applyCalls(t, bal, calls) ==
    IF calls = <<>> THEN [tree |-> t, results |-> <<>>]
    ELSE CHOOSE res \in
           { LET rest == applyCalls(one.tree, bal, Tail(calls))
             IN [tree |-> rest.tree,
                 results |-> <<one.result>> \o rest.results]
             : one \in { IF Head(calls).op = "insert"
                         THEN LET i == insert(t, bal, Head(calls).key,
                                              Head(calls).value)
                              IN [tree |-> i.tree,
                                  result |-> IF i.result THEN 1 ELSE 0]
                         ELSE LET r == remove(t, bal, Head(calls).key, FALSE,
                                              "stale")
                              IN [tree |-> r.tree, result |-> r.result] } }
           : TRUE

\* The program makes the calls on a tree that allows duplicates; ret.items
\* keeps the calls made so far.
InitCalls ==
    /\ balanced \in BOOLEAN
    /\ valued = TRUE
    /\ tree = EmptyTree(TRUE)
    /\ heapCorrupt = FALSE
    /\ ret = Call("none", 0, NoValue, FALSE, <<>>, 0)

MakeCall(call) ==
    /\ ~heapCorrupt
    /\ Len(ret.items) < MaxCalls
    /\ LET res == applyCalls(tree, balanced, <<call>>)
       IN /\ tree' = res.tree
          /\ ret' = Call(call.op, call.key, call.value, FALSE,
                         Append(ret.items, call), res.results[1])
    /\ UNCHANGED <<balanced, valued, heapCorrupt>>

NextCalls ==
    \/ \E key \in Keys : \E value \in Values : MakeCall(InsertCall(key, value))
    \/ \E key \in Keys : MakeCall(RemoveCall(key))

SpecCalls == InitCalls /\ [][NextCalls]_vars

\* ---- trees moved ---------------------------------------------------------------------
\* Tree other(std::move(t)): the program goes on with the tree it moved from
\* (keepSource) or with the tree it moved to.
Move(keepSource) ==
    /\ ~heapCorrupt
    /\ LET m == moveTree(tree, EmptyTree(TRUE))
       IN /\ tree' = IF keepSource THEN m.source ELSE m.destination
          /\ ret' = Call("move", 0, NoValue, keepSource, <<>>, 0)
    /\ UNCHANGED <<balanced, valued, heapCorrupt>>

NextMove ==
    \/ \E key \in Keys : \E value \in ValuesOf(valued) : Insert(key, value)
    \/ \E key \in Keys : \E all \in BOOLEAN : \E ub \in ReadsFor(all) :
          Remove(key, all, ub)
    \/ Clear
    \/ \E keepSource \in BOOLEAN : Move(keepSource)

SpecMove == Init /\ [][NextMove]_vars

\* ---- the series of the library's own test ------------------------------------------
\* The series of test_tree.cpp: keys, their values, and the heights the test
\* expects after each insertion into a tree that allows duplicates.
keys == <<-5, 10, 7, -2, 0, -8, -5, 6, -4, 1>>

values == <<"Mango", "Strawberry", "Grapes", "Apple", "Banana", "Peach", "Pineapple", "Kiwi", "Orange", "Watermelon">>

bstHeights == <<1, 2, 3, 4, 5, 5, 5, 6, 6, 7>>

avlHeights == <<1, 2, 2, 3, 3, 3, 3, 4, 4, 4>>

\* One turn of the loop of testInsertion, up to its insert: the test inserts
\* keys[index] with values[index], index counting the items inserted so far,
\* and has called getHeight() after the insert before.
TestInsert ==
    /\ ~heapCorrupt
    /\ ret.op # "insert"
    /\ LiveItems(tree.root) < Len(keys)
    /\ LET index == LiveItems(tree.root) + 1
           res == insert(tree, balanced, keys[index], values[index])
       IN /\ tree' = res.tree
          /\ ret' = Call("insert", keys[index], values[index], FALSE, <<>>,
                         IF res.result THEN 1 ELSE 0)
    /\ UNCHANGED <<balanced, valued, heapCorrupt>>

\* The getHeight() that follows the insert in the same turn.
TestGetHeight ==
    /\ ret.op = "insert"
    /\ GetHeight

\* tree.search(key, lastEncounter) between two turns; ret.items holds the
\* item found, if any.
TestSearch(key, lastEncounter) ==
    /\ ~heapCorrupt
    /\ ret.op # "insert"
    /\ LET res == search(tree, balanced, key, lastEncounter)
       IN ret' = Call("search", key, NoValue, lastEncounter,
                      IF res.found THEN <<<<res.key, res.value>>>> ELSE <<>>,
                      IF res.found THEN 1 ELSE 0)
    /\ UNCHANGED <<balanced, valued, tree, heapCorrupt>>

InitTest ==
    /\ balanced \in BOOLEAN
    /\ valued = TRUE
    /\ tree = EmptyTree(TRUE)
    /\ heapCorrupt = FALSE
    /\ ret = Call("none", 0, NoValue, FALSE, <<>>, 0)

NextTest ==
    \/ TestInsert
    \/ TestGetHeight
    \/ \E i \in 1..Len(keys) : \E lastEncounter \in BOOLEAN :
          TestSearch(keys[i], lastEncounter)

SpecTest == InitTest /\ [][NextTest]_vars

\* ---- AVL trees of several levels -----------------------------------------------------
\* A key-only AVLTree built from the empty tree by single inserts of keys in
\* 1..MaxAvlKey: enough keys for every rotation case to arise.
InitAvl ==
    /\ balanced = TRUE
    /\ valued = FALSE
    /\ \E d \in BOOLEAN : tree = EmptyTree(d)
    /\ heapCorrupt = FALSE
    /\ ret = Call("none", 0, NoValue, FALSE, <<>>, 0)

InsertKey(key) ==
    /\ ~heapCorrupt
    /\ tree.count < MaxAvlCount
    /\ LET res == insert(tree, balanced, key, NoValue)
       IN /\ tree' = res.tree
          /\ ret' = Call("insert", key, NoValue, FALSE, <<>>,
                         IF res.result THEN 1 ELSE 0)
    /\ UNCHANGED <<balanced, valued, heapCorrupt>>

NextAvlInserts == \E key \in 1..MaxAvlKey : InsertKey(key)

SpecAvlInserts == InitAvl /\ [][NextAvlInserts]_vars

\* The same trees under inserts and removes.
NextAvl ==
    \/ \E key \in 1..MaxAvlKey : InsertKey(key)
    \/ \E key \in 1..MaxAvlKey : \E all \in BOOLEAN :
          Remove(key, all, "stale")

SpecAvl == InitAvl /\ [][NextAvl]_vars

\* Key-only trees of either mode that disallow duplicate keys, under the
\* same inserts and removes.
InitNoDuplicates ==
    /\ balanced \in BOOLEAN
    /\ valued = FALSE
    /\ tree = EmptyTree(FALSE)
    /\ heapCorrupt = FALSE
    /\ ret = Call("none", 0, NoValue, FALSE, <<>>, 0)

SpecNoDuplicates == InitNoDuplicates /\ [][NextAvl]_vars

RemoveOps == {"remove", "removeValue", "removeKeys", "removePairs"}

\* ---- claims ---------------------------------------------------------------------------

\* C1: in a tree that disallows duplicate keys, insert of a key that is already
\* present returns false and leaves the node graph, getCount() and getHeight()
\* as they were.
C1_DuplicateInsertRejected ==
    [][(/\ ret'.op = "insert"
        /\ ~tree.allowDuplicateKeys
        /\ LiveItemsWithKey(tree.root, ret'.key) > 0)
       => (/\ ret'.result = 0
           /\ tree'.root = tree.root
           /\ getCount(tree') = getCount(tree)
           /\ getHeight(tree').result = getHeight(tree).result)]_vars

\* C2: after any sequence of inserts and removes, at every node the keys of the
\* left subtree are < its key (<= when duplicates are allowed) and the keys of
\* the right subtree are > its key.  Read where the node graph is defined,
\* that is while no node was destroyed behind the tree's back.
C2_OrderingInvariant ==
    ~heapCorrupt => Ordered(tree.root, tree.allowDuplicateKeys)

\* C3: in AVL mode, when an insert or remove returns, every node has
\* |height(right) - height(left)| <= 1.
C3_AVLBalanceInvariant ==
    balanced => AVLBalanced(tree.root)

\* C4: getCount() equals the number of nodes reachable from the root plus the
\* total length of all duplicates lists.
C4_CountIsLiveItems ==
    ~heapCorrupt => getCount(tree) = LiveItems(tree.root)

\* C5: getHeight() returns the number of levels of the current node graph,
\* whether or not getHeight() was called earlier.
C5_HeightIsCurrent ==
    ~heapCorrupt => getHeight(tree).result = nodeHeight(tree.root)

\* C6: getCount(key) equals the number of live items with that key anywhere in
\* the node graph.
C6_CountOfKey ==
    ~heapCorrupt =>
        \A key \in Keys :
            getCountKey(tree, balanced, key) = LiveItemsWithKey(tree.root, key)

\* C7: in a duplicate-allowing tree, remove(key, all=true) returns getCount(key)
\* as measured before the call, decreases getCount() by that amount, and leaves
\* getCount(key) = 0.
C7_RemoveAllOfKey ==
    [][(ret'.op = "remove" /\ ret'.all /\ tree.allowDuplicateKeys)
       => (/\ ret'.result = getCountKey(tree, balanced, ret'.key)
           /\ getCount(tree') = getCount(tree) - ret'.result
           /\ getCountKey(tree', balanced, ret'.key) = 0)]_vars

\* C8: getCount() equals the number of insert calls that returned true minus
\* the sum of the values returned by the remove calls; as the count of the
\* empty tree is 0, this says that every insert that returns true adds 1, every
\* other insert adds nothing, and every remove subtracts what it returns.
C8_CountFollowsReturns ==
    [][/\ ret'.op = "insert" => getCount(tree') = getCount(tree) + ret'.result
       /\ ret'.op \in RemoveOps
              => getCount(tree') = getCount(tree) - ret'.result]_vars

\* C9: in a duplicate-allowing key-value tree, remove(key, value, all=true)
\* returns getCount(key, value) as measured before the call, decreases
\* getCount() by the returned number, leaves getCount(key, value) = 0, and
\* keeps every item with the same key and another value.
C9_RemoveAllOfKeyValue ==
    [][(ret'.op = "removeValue" /\ ret'.all /\ tree.allowDuplicateKeys)
       => (/\ ret'.result
                = getCountKeyValue(tree, balanced, ret'.key, ret'.value)
           /\ getCount(tree') = getCount(tree) - ret'.result
           /\ getCountKeyValue(tree', balanced, ret'.key, ret'.value) = 0
           /\ \A w \in Values \ {ret'.value} :
                 LiveItemsWithKeyValue(tree'.root, ret'.key, w)
                 = LiveItemsWithKeyValue(tree.root, ret'.key, w))]_vars

\* remove(p.first, p.second, all) called for each pair p in order.
RECURSIVE RemoveEachPair(_, _, _, _, _)
RemoveEachPair(t, bal, pairs, all, ub) ==
    IF pairs = <<>> THEN [tree |-> t, result |-> 0]
    ELSE LET one == removeValue(t, bal, Head(pairs)[1], Head(pairs)[2], all,
                                ub)
             rest == RemoveEachPair(one.tree, bal, Tail(pairs), all, ub)
         IN [tree |-> rest.tree, result |-> one.result + rest.result]

\* C10: remove(pairs, all) returns the sum of, and has the same effect as,
\* remove(p.first, p.second, all) for each pair p in order; with all=true no
\* occurrence of a listed pair is left.
C10_BatchRemoveHonoursAll ==
    [][ret'.op = "removePairs"
       => (/\ \E ub \in DanglingReads :
                 LET each == RemoveEachPair(tree, balanced, ret'.items,
                                            ret'.all, ub)
                 IN ret'.result = each.result /\ tree' = each.tree
           /\ ret'.all =>
                 \A i \in 1..Len(ret'.items) :
                     LiveItemsWithKeyValue(tree'.root, ret'.items[i][1],
                                           ret'.items[i][2]) = 0)]_vars

C12_SearchByValueFindsLiveItems ==
    (~heapCorrupt /\ valued) =>
        \A key \in Keys : \A value \in Values : \A lastEncounter \in BOOLEAN :
            LET r == searchValue(tree, balanced, key, value, lastEncounter)
            IN /\ r.found <=> LiveItemsWithKeyValue(tree.root, key, value) > 0
               /\ r.found => (r.key = key /\ r.value = value)
               /\ ~r.found => r = NotFound

\* Number of occurrences of item in the sequence items.
Occurrences(items, item) ==
    Cardinality({i \in 1..Len(items) : items[i] = item})

\* C13: for every tree T reachable by inserts and removes,
\* deserialize(serialize(T)) is a tree with T's isDuplicationAllowed(), with the
\* same multiset of items as T.getItems() and with getCount() equal to their
\* number; for an empty T it is empty with getCount() = 0.
C13_SerializeRoundTrip ==
    [][(/\ ret'.op = "deserialize"
        /\ ret'.items = serialize(tree, balanced, valued).file)
       => LET items == getItems(tree, balanced).items
          IN /\ tree'.allowDuplicateKeys = tree.allowDuplicateKeys
             /\ \A k \in Keys : \A v \in ValuesOf(valued) :
                   LiveItemsWithKeyValue(tree'.root, k, v)
                   = Occurrences(items, <<k, v>>)
             /\ getCount(tree') = Len(items)
             /\ isEmpty(tree) => (isEmpty(tree') /\ getCount(tree') = 0)]_vars

\* C13 witness: a tree that disallows duplicates read back whole from a file
\* of three records or more.
C13_Witness ==
    /\ ret.op = "deserialize" /\ ret.result = 0
    /\ ~tree.allowDuplicateKeys
    /\ getCount(tree) >= 2
    /\ Len(ret.items) = (1 + DataSize) * (1 + getCount(tree)
                                            * (IF valued THEN 2 ELSE 1))

\* The stream holds the flag and then stops inside an item: part of a key, or
\* a key without the whole of its value.
EndsInsideRecord(stream, hasValue) ==
    /\ Len(stream) >= 1 + DataSize
    /\ (Len(stream) - (1 + DataSize))
          % ((1 + DataSize) * (IF hasValue THEN 2 ELSE 1)) # 0

\* C14: when the stream ends inside a record, deserialize reports corruption
\* and returns an empty tree, never a tree built from the records before.
C14_TruncatedRecordIsCorruption ==
    [][(ret'.op = "deserialize" /\ EndsInsideRecord(ret'.items, valued))
       => (ret'.result = 1 /\ isEmpty(tree') /\ getCount(tree') = 0)]_vars

\* The node graph below node without the balance factors: shape, keys,
\* values and duplicates lists.
RECURSIVE Shape(_)
Shape(node) ==
    IF node = nullptr THEN <<>>
    ELSE <<[key |-> node[1].key, value |-> node[1].value,
            duplicates |-> node[1].duplicates,
            left |-> Shape(node[1].left), right |-> Shape(node[1].right)]>>

\* C15: the copy constructor yields a tree with the source's duplicate policy,
\* the same getCount() and exactly the same node shape, keys, values and
\* duplicates lists.
C15_CopyIsIdentical ==
    [][ret'.op = "copy"
       => (/\ tree'.allowDuplicateKeys = tree.allowDuplicateKeys
           /\ getCount(tree') = getCount(tree)
           /\ Shape(tree'.root) = Shape(tree.root))]_vars

\* C16: after a = b, a holds the same multiset of items and the same
\* getCount() as b, whatever a held before and whatever the two policies are.
C16_CopyAssignGivesSameItems ==
    [][ret'.op = "copyAssign"
       => LET b == TreeFromItems(ret'.items, ret'.all, balanced)
          IN /\ getCount(tree') = getCount(b)
             /\ \A k \in Keys : \A v \in ValuesOf(valued) :
                   LiveItemsWithKeyValue(tree'.root, k, v)
                   = LiveItemsWithKeyValue(b.root, k, v)]_vars

\* C17: remove(key, all) for a key with no live item, and remove(key, value,
\* all) for a pair with no live item, return 0 and leave the node graph, every
\* duplicates list, getCount() and getHeight() unchanged.
C17_RemoveOfAbsentChangesNothing ==
    [][(\/ /\ ret'.op = "remove"
           /\ LiveItemsWithKey(tree.root, ret'.key) = 0
        \/ /\ ret'.op = "removeValue"
           /\ LiveItemsWithKeyValue(tree.root, ret'.key, ret'.value) = 0)
       => (/\ ret'.result = 0
           /\ tree'.root = tree.root
           /\ getCount(tree') = getCount(tree)
           /\ getHeight(tree').result = getHeight(tree).result)]_vars

\* C17 witness: remove(key, value, all) has just returned 0 on a tree that
\* holds the key with other values only, next to another key.
C17_Witness ==
    /\ ret.op = "removeValue" /\ ret.result = 0
    /\ LiveItemsWithKey(tree.root, ret.key) >= 2
    /\ LiveItemsWithKeyValue(tree.root, ret.key, ret.value) = 0
    /\ \E k \in Keys \ {ret.key} : LiveItemsWithKey(tree.root, k) > 0

\* The keys of all live items: of the primary nodes and of their duplicates.
RECURSIVE LiveKeys(_)
LiveKeys(node) ==
    IF node = nullptr THEN {}
    ELSE {node[1].key}
         \cup {node[1].duplicates[i][1] : i \in 1..Len(node[1].duplicates)}
         \cup LiveKeys(node[1].left) \cup LiveKeys(node[1].right)

\* C18: on an empty tree minKey() and maxKey() return found = false; on a
\* non-empty tree minKey() returns found = true with a key <= every live key
\* and maxKey() returns found = true with a key >= every live key.
C18_MinMaxKey ==
    LET minResult == minKey(tree, balanced)
        maxResult == maxKey(tree, balanced)
    IN IF isEmpty(tree)
       THEN ~minResult.found /\ ~maxResult.found
       ELSE /\ minResult.found /\ maxResult.found
            /\ \A k \in LiveKeys(tree.root) :
                  minResult.key <= k /\ k <= maxResult.key

\* C18 witness: a tree of three nodes or more, reached through a removal,
\* whose smallest and largest keys differ.
C18_Witness ==
    /\ ret.op \in RemoveOps /\ ret.result > 0
    /\ Cardinality(NodesAt(tree.root, <<>>)) >= 3
    /\ minKey(tree, balanced).key < maxKey(tree, balanced).key

Reverse(seq) == [i \in 1..Len(seq) |-> seq[Len(seq) + 1 - i]]

\* C19: after any sequence of inserts and removes, getSortedKeys(false) is in
\* non-decreasing key order and getSortedKeys(true) is exactly its reverse.
C19_SortedKeys ==
    LET sortedKeys == getSortedKeys(tree.root, FALSE)
    IN /\ \A i \in 1..(Len(sortedKeys) - 1) : sortedKeys[i] <= sortedKeys[i + 1]
       /\ getSortedKeys(tree.root, TRUE) = Reverse(sortedKeys)

\* C19 witness: after a removal, a listing of three keys or more that is not
\* constant.
C19_Witness ==
    /\ ret.op \in RemoveOps /\ ret.result > 0
    /\ LET sortedKeys == getSortedKeys(tree.root, FALSE)
       IN Len(sortedKeys) >= 3 /\ sortedKeys[1] < sortedKeys[Len(sortedKeys)]

\* C20: on a key-value tree, getSortedKeyValuePairs(reverse) returns the
\* key-value pair of every node of the tree, in ascending key order when
\* reverse = false and in descending key order when reverse = true.
C20_SortedKeyValuePairs ==
    valued =>
        \A reverse \in BOOLEAN :
            LET pairs == getSortedKeyValuePairs(tree, reverse)
            IN /\ \A k \in Keys : \A v \in Values :
                     Occurrences(pairs, <<k, v>>)
                     = Cardinality({p \in NodesAt(tree.root, <<>>) :
                                       p[2].key = k /\ p[2].value = v})
               /\ \A i \in 1..(Len(pairs) - 1) :
                     IF reverse THEN pairs[i][1] >= pairs[i + 1][1]
                     ELSE pairs[i][1] <= pairs[i + 1][1]

\* C21: inserting the keys and values of the test series, in that order, into
\* an empty tree that allows duplicates: every insert returns true, the
\* getHeight() after the i-th insert returns avlHeights[i] in an AVLTree and
\* bstHeights[i] in a BSTree, getCount() is 10 after the last insert, and
\* search(-5, true) then returns (true, -5, "Pineapple").
C21_TestSeries ==
    [][/\ ret'.op = "insert" => ret'.result = 1
       /\ ret'.op = "getHeight"
              => ret'.result = (IF balanced THEN avlHeights
                                ELSE bstHeights)[LiveItems(tree.root)]
       /\ LiveItems(tree'.root) = Len(keys) => getCount(tree') = 10
       /\ (/\ ret'.op = "search" /\ ret'.key = -5 /\ ret'.all
           /\ LiveItems(tree.root) = Len(keys))
              => ret'.items = <<<<-5, "Pineapple">>>>]_vars

\* C21 happens: the ten items are in, the last getHeight() was made, and
\* search(-5, true) has returned.
C21_Witness ==
    /\ LiveItems(tree.root) = Len(keys)
    /\ ~tree.invalidateHeight
    /\ tree.height = IF balanced THEN 4 ELSE 7
    /\ ret.op = "search" /\ ret.key = -5 /\ ret.all /\ ret.result = 1

\* C22: starting from an empty AVL tree, after each insert of an insert-only
\* sequence every node has |height(right) - height(left)| <= 1: the rotation
\* balance() applies at the deepest imbalanced node removes every imbalance
\* one insertion creates.
C22_InsertKeepsAVLBalanced ==
    balanced => AVLBalanced(tree.root)

\* C22 happens: the key just inserted sits at the root above two children,
\* where only a double rotation can have put it.
C22_Witness ==
    /\ balanced
    /\ ret.op = "insert" /\ ret.result = 1
    /\ tree.root # nullptr
    /\ tree.root[1].key = ret.key
    /\ tree.root[1].duplicates = <<>>
    /\ tree.root[1].left # nullptr /\ tree.root[1].right # nullptr

\* C23: in AVL mode with duplicates allowed, insert of a key that is already
\* present returns true, appends the item to the tail of that node's
\* duplicates list, increments getCount() by exactly 1, and leaves the node
\* topology, every balanceFactor, the cached height value and the
\* height-invalid flag unchanged.
C23_DuplicateInsertFrame ==
    [][(/\ ret'.op = "insert"
        /\ balanced /\ tree.allowDuplicateKeys
        /\ LiveItemsWithKey(tree.root, ret'.key) > 0)
       => (/\ ret'.result = 1
           /\ \E p \in NodesAt(tree.root, <<>>) :
                 /\ p[2].key = ret'.key
                 /\ tree'.root
                      = Assign(tree.root, p[1],
                               <<[p[2] EXCEPT !.duplicates =
                                     Append(@, <<ret'.key, ret'.value>>)]>>)
           /\ getCount(tree') = getCount(tree) + 1
           /\ tree'.height = tree.height
           /\ tree'.invalidateHeight = tree.invalidateHeight)]_vars

\* C24: in AVL mode, remove(key, all=false) on a key whose node has a
\* non-empty duplicates list returns 1, makes the former front of the list the
\* node's primary item and keeps the order of the rest of the list,
\* decrements getCount() by exactly 1, and leaves the node topology and every
\* balanceFactor unchanged.
C24_RemoveOneOfDuplicates ==
    [][(/\ ret'.op = "remove" /\ ~ret'.all
        /\ balanced
        /\ \E n \in Nodes(tree.root) :
              n.key = ret'.key /\ n.duplicates # <<>>)
       => (/\ ret'.result = 1
           /\ \E p \in NodesAt(tree.root, <<>>) :
                 /\ p[2].key = ret'.key
                 /\ tree'.root
                      = Assign(tree.root, p[1],
                               <<[p[2] EXCEPT
                                     !.key = p[2].duplicates[1][1],
                                     !.value = p[2].duplicates[1][2],
                                     !.duplicates = Tail(@)]>>)
           /\ getCount(tree') = getCount(tree) - 1)]_vars

\* C24 happens: an AVLTree's remove(key, false) has returned 1 and the key is
\* still in the tree, its node holding two values of which the older is now
\* the primary item.
C24_Witness ==
    /\ balanced /\ valued
    /\ ret.op = "remove" /\ ~ret.all /\ ret.result = 1
    /\ \E n \in Nodes(tree.root) :
          /\ n.key = ret.key
          /\ n.duplicates # <<>>
          /\ n.duplicates[1][2] # n.value

\* C25: in AVL mode, when any insert or remove returns, every node's stored
\* balanceFactor equals height(right subtree) - height(left subtree) computed
\* on the current node graph.
C25_BalanceFactorsAreCurrent ==
    balanced =>
        \A n \in Nodes(tree.root) :
            n.balanceFactor = nodeHeight(n.right) - nodeHeight(n.left)

\* C25 happens: a remove has taken a node out of an AVLTree of three levels
\* and left a node whose subtrees differ in height.
C25_Witness ==
    /\ balanced
    /\ ret.op = "remove" /\ ret.result > 0
    /\ nodeHeight(tree.root) = 3
    /\ \E n \in Nodes(tree.root) :
          n.balanceFactor = -1 /\ nodeHeight(n.left) = 2

\* The nodes below node in in-order, each with its key, value and duplicates.
RECURSIVE InOrder(_)
InOrder(node) ==
    IF node = nullptr THEN <<>>
    ELSE InOrder(node[1].left)
         \o <<[key |-> node[1].key, value |-> node[1].value,
               duplicates |-> node[1].duplicates]>>
         \o InOrder(node[1].right)

\* The node graph insert(key) or remove(key, true) hands to balance(): the
\* new leaf hung in when key is absent, the node of key taken out when it is
\* present.
PreBalance(root, key) ==
    LET current == findSlot(root, <<>>, key)
        node == Deref(root, current)
    IN IF node = nullptr THEN Assign(root, current, <<Node(key, NoValue)>>)
       ELSE Assign(root, current, removeNode(node))

\* C26: balance() changes only child links (and balance factors): the
\* in-order sequence of nodes with their keys, values and duplicates lists,
\* hence the set of nodes reachable from the root and the number of items,
\* is the same after the call as before it.  Stated for every node graph an
\* insert or a remove can hand to balance() in a reachable state.
C26_BalanceKeepsNodes ==
    balanced =>
        \A key \in (1..MaxAvlKey) \cup KeysBelow(tree.root) :
            LET pre == PreBalance(tree.root, key)
            IN /\ InOrder(balance(pre)) = InOrder(pre)
               /\ LiveItems(balance(pre)) = LiveItems(pre)

\* C26 happens: some call in this state hands balance() a graph of at least
\* six nodes that it rotates.
C26_Witness ==
    /\ balanced
    /\ \E key \in 1..MaxAvlKey :
          LET pre == PreBalance(tree.root, key)
          IN /\ Cardinality(Nodes(pre)) >= 6
             /\ Shape(balance(pre)) # Shape(pre)

\* What the claim compares on a tree: getCount(), and for every key
\* getCount(key), search(key, false), search(key, true), then minKey() and
\* maxKey().
Observed(t, bal) ==
    [count |-> getCount(t),
     countKey |-> [k \in Keys |-> getCountKey(t, bal, k)],
     first |-> [k \in Keys |-> search(t, bal, k, FALSE)],
     last |-> [k \in Keys |-> search(t, bal, k, TRUE)],
     min |-> minKey(t, bal),
     max |-> maxKey(t, bal)]

\* C27: a sequence of insert(key, value) and remove(key, all=false) calls
\* made on an empty duplicate-allowing BSTree and on an empty
\* duplicate-allowing AVLTree gives, after every call, the same return value
\* and the same getCount(), getCount(k), search(k, false), search(k, true),
\* minKey() and maxKey().  The tree of the state is one of the two; the other
\* is the one the same calls build in the other mode.
C27_BSTAndAVLAgree ==
    LET other == applyCalls(EmptyTree(TRUE), ~balanced, ret.items)
    IN /\ ret.items # <<>> => ret.result = other.results[Len(ret.items)]
       /\ Observed(tree, balanced) = Observed(other.tree, ~balanced)

\* C28: after any sequence of inserts and removes on a tree that allows
\* duplicates (either mode), getSortedKeys() holds exactly one entry per live
\* item: its length is getCount() and each key occurs in it as often as there
\* are live items with that key, the entries of AVL duplicates lists included.
C28_SortedKeysListEveryItem ==
    (~heapCorrupt /\ tree.allowDuplicateKeys) =>
        LET sortedKeys == getSortedKeys(tree.root, FALSE)
        IN /\ Len(sortedKeys) = getCount(tree)
           /\ \A key \in Keys :
                 Cardinality({i \in 1..Len(sortedKeys) : sortedKeys[i] = key})
                 = LiveItemsWithKey(tree.root, key)

\* C29: after any sequence of insert, remove, clear and move operations,
\* isEmpty() is true exactly when getCount() = 0, also on a tree that has
\* just been moved from.
C29_EmptyIffCountZero ==
    ~heapCorrupt => (isEmpty(tree) <=> getCount(tree) = 0)

\* C30: in a tree constructed with allowDuplicateKeys = false (either mode),
\* after any sequence of inserts and removes no two live items have equal
\* keys: the keys of the nodes are pairwise distinct and every duplicates list
\* is empty.
C30_NoEqualKeysWithoutDuplicates ==
    ~tree.allowDuplicateKeys =>
        /\ \A p, q \in NodesAt(tree.root, <<>>) :
              p[1] # q[1] => p[2].key # q[2].key
        /\ \A n \in Nodes(tree.root) : n.duplicates = <<>>

\* C30 happens: a tree of at least three nodes that disallows duplicates was
\* asked to insert a key it holds, or has just had a node with two children
\* (the root) removed.
C30_Witness ==
    /\ ~tree.allowDuplicateKeys
    /\ Cardinality(Nodes(tree.root)) >= 3
    /\ \/ /\ ret.op = "insert"
          /\ Cardinality({n \in Nodes(tree.root) : n.key = ret.key}) = 1
          /\ getCount(tree) > Cardinality(Nodes(tree.root)) \/ ret.result = 0
       \/ /\ ret.op = "remove" /\ ret.result = 1
          /\ tree.root[1].left # nullptr /\ tree.root[1].right # nullptr
          /\ tree.root[1].key > ret.key

====
